---------------------------- MODULE Spec2Model ----------------------------
(* A model of src/pipeline_monitor.py: the PipelineMonitor class and the   *)
(* __main__ block that constructs it and runs monitor_pipelines.           *)
(*                                                                         *)
(* Python values are represented as follows.                               *)
(*   str       a TLA+ string (Len, SubSeq and \o work on strings in TLC)   *)
(*   dict      a function from the keys that are present to their values   *)
(*   list      a sequence                                                  *)
(*   datetime  a record of the fields a Python datetime holds              *)
(*   None      the record None below                                       *)
EXTENDS Integers, Sequences, FiniteSets, TLC

---------------------------------------------------------------------------
(* Bounds of the model.                                                    *)

\* Longest provider listing that is explored.
MaxPipelines == 3
\* Longest artifact-revision list explored for get_commit_message alone.
MaxRevisions == 2
\* Latest hour after midnight of the end timestamps explored for
\* format_duration alone.
MaxEndHour == 1

---------------------------------------------------------------------------
(* Python built-ins.                                                       *)

None == [None |-> TRUE]

\* dict.get(key, default)
Get(d, k, default) == IF k \in DOMAIN d THEN d[k] ELSE default

\* Truth value of a dict-or-None value: None and the empty dict are falsy.
TruthyDict(d) == d # None /\ DOMAIN d # {}

UpperLetters == "ABCDEFGHIJKLMNOPQRSTUVWXYZ"
LowerLetters == "abcdefghijklmnopqrstuvwxyz"

\* str.lower() on one character (ASCII).
LowerChar(c) ==
    IF \E i \in 1..Len(UpperLetters) : SubSeq(UpperLetters, i, i) = c
    THEN LET i == CHOOSE j \in 1..Len(UpperLetters) : SubSeq(UpperLetters, j, j) = c
         IN  SubSeq(LowerLetters, i, i)
    ELSE c

\* str.lower() of s from its i-th character on.
RECURSIVE LowerFrom(_, _)
LowerFrom(s, i) ==
    IF i > Len(s) THEN ""
    ELSE LowerChar(SubSeq(s, i, i)) \o LowerFrom(s, i + 1)

\* str.lower().  The argument is bound to its value once, as Python evaluates
\* an argument before the call.
Lower(s) == LET f[v \in {s}] == LowerFrom(v, 1) IN f[s]

\* The 1-based position of the first occurrence of sub in s at or after
\* position i, 0 when there is none.
RECURSIVE FindFrom(_, _, _)
FindFrom(s, sub, i) ==
    IF i + Len(sub) - 1 > Len(s) THEN 0
    ELSE IF SubSeq(s, i, i + Len(sub) - 1) = sub THEN i
    ELSE FindFrom(s, sub, i + 1)

\* The 1-based position of the first occurrence of sub in s, 0 when absent
\* (str.find, plus one).  The argument is bound to its value once.
Find(s, sub) == LET f[v \in {s}] == FindFrom(v, sub, 1) IN f[s]

\* sub in s
Contains(s, sub) == Find(s, sub) # 0

\* s.split(sep), for a non-empty separator.
RECURSIVE Split(_, _)
Split(s, sep) ==
    LET i == Find(s, sep)
    IN  IF i = 0 THEN <<s>>
        ELSE <<SubSeq(s, 1, i - 1)>>
             \o Split(SubSeq(s, i + Len(sep), Len(s)), sep)

\* A slice bound as Python normalises it: negative bounds count from the
\* end, and every bound is clamped into 0..len.
SliceBound(i, n) ==
    IF i < 0 THEN (IF i + n < 0 THEN 0 ELSE i + n)
    ELSE (IF i > n THEN n ELSE i)

\* s[start:stop]
Slice(s, start, stop) ==
    SubSeq(s, SliceBound(start, Len(s)) + 1, SliceBound(stop, Len(s)))

\* Code points 32..95 and 97..126, in order (96, the backquote, is left out).
AsciiLow == " !\"#$%&'()*+,-./0123456789:;<=>?@ABCDEFGHIJKLMNOPQRSTUVWXYZ[\\]^_"
AsciiHigh == "abcdefghijklmnopqrstuvwxyz{|}~"

\* ord(c)
Ord(c) ==
    IF \E i \in 1..Len(AsciiLow) : SubSeq(AsciiLow, i, i) = c
    THEN 31 + (CHOOSE i \in 1..Len(AsciiLow) : SubSeq(AsciiLow, i, i) = c)
    ELSE 96 + (CHOOSE i \in 1..Len(AsciiHigh) : SubSeq(AsciiHigh, i, i) = c)

\* a < b, given that a and b agree before their i-th characters.
RECURSIVE StrLessFrom(_, _, _)
StrLessFrom(a, b, i) ==
    IF i > Len(b) THEN FALSE
    ELSE IF i > Len(a) THEN TRUE
    ELSE IF SubSeq(a, i, i) = SubSeq(b, i, i)
         THEN StrLessFrom(a, b, i + 1)
         ELSE Ord(SubSeq(a, i, i)) < Ord(SubSeq(b, i, i))

\* a < b on Python strings: lexicographic by code point.
StrLess(a, b) == StrLessFrom(a, b, 1)

DigitChars == "0123456789"

\* str(n) for an integer, as f"{n}" renders it.
RECURSIVE Str(_)
Str(n) ==
    IF n < 0 THEN "-" \o Str(-n)
    ELSE IF n < 10 THEN SubSeq(DigitChars, n + 1, n + 1)
    ELSE Str(n \div 10) \o SubSeq(DigitChars, (n % 10) + 1, (n % 10) + 1)

\* The %d, %m, %H and %M fields of strftime: two digits, zero padded.
Pad2(n) == IF n < 10 THEN "0" \o Str(n) ELSE Str(n)

\* ", ".join(items)
RECURSIVE Join(_)
Join(items) ==
    IF items = <<>> THEN ""
    ELSE IF Len(items) = 1 THEN items[1]
    ELSE items[1] \o ", " \o Join(Tail(items))

---------------------------------------------------------------------------
(* datetime.                                                               *)

Datetime(y, mo, d, h, mi, s, us) ==
    [year |-> y, month |-> mo, day |-> d, hour |-> h, minute |-> mi,
     second |-> s, microsecond |-> us]

\* isinstance(v, datetime)
IsDatetime(v) ==
    DOMAIN v = {"year", "month", "day", "hour", "minute", "second", "microsecond"}

IsLeap(y) == y % 4 = 0 /\ (y % 100 # 0 \/ y % 400 = 0)

DaysInMonth(y, m) ==
    IF m = 2 THEN (IF IsLeap(y) THEN 29 ELSE 28)
    ELSE IF m \in {4, 6, 9, 11} THEN 30 ELSE 31

RECURSIVE DaysBeforeMonth(_, _)
DaysBeforeMonth(y, m) ==
    IF m = 1 THEN 0 ELSE DaysBeforeMonth(y, m - 1) + DaysInMonth(y, m - 1)

DaysBeforeYear(y) ==
    (y - 1) * 365 + ((y - 1) \div 4) - ((y - 1) \div 100) + ((y - 1) \div 400)

\* date.toordinal()
ToOrdinal(dt) == DaysBeforeYear(dt.year) + DaysBeforeMonth(dt.year, dt.month) + dt.day

\* end_time - start_time: the whole seconds and the microseconds of the
\* difference, each signed (the integers of the model checker are 32 bits
\* wide, too narrow for the difference in microseconds).
Timedelta(start_time, end_time) ==
    [seconds |-> (ToOrdinal(end_time) - ToOrdinal(start_time)) * 86400
                 + (end_time.hour - start_time.hour) * 3600
                 + (end_time.minute - start_time.minute) * 60
                 + (end_time.second - start_time.second),
     microseconds |-> end_time.microsecond - start_time.microsecond]

\* int(duration.total_seconds()): int() truncates toward zero.
IntTotalSeconds(td) ==
    LET s == td.seconds
        us == td.microseconds
    IN  IF s > 0 \/ (s = 0 /\ us >= 0)
        THEN (IF us >= 0 THEN s ELSE s - 1)
        ELSE (IF us <= 0 THEN s ELSE s + 1)

---------------------------------------------------------------------------
(* The outcome of one provider API call: it raised (with the exception's   *)
(* text) or it returned a response dict.                                   *)

Raised(text) == [raised |-> TRUE, error |-> text]
Returned(resp) == [raised |-> FALSE, response |-> resp]

---------------------------------------------------------------------------
(* PipelineMonitor: the methods, as functions of the API call's outcome.   *)

VARIABLES
    environ,        \* os.environ after load_dotenv: the variables that are set
    argv_filters,   \* args.filters, the list given to the constructor
    now,            \* what datetime.now() returns
    provider,       \* the pipeline names the provider lists, in its order
    pc,             \* where the __main__ block is
    name_filters,   \* self.name_filters
    codepipeline,   \* TRUE once boto3.client(...) made self.codepipeline
    pipelines,      \* monitor_pipelines' local: the filtered names
    idx,            \* 1-based position of the for loop in pipelines
    execution,      \* the loop's current execution summary
    branch,         \* the loop's current branch
    table_data,     \* monitor_pipelines' local list of rows
    assembled,      \* history: the rows in the order they were appended
    stdout,         \* everything printed, in order
    calls,          \* history: the provider API calls issued, in order
    fn_input,       \* argument of a method that is exercised on its own
    fn_output       \* its result

vars == <<environ, argv_filters, now, provider, pc, name_filters, codepipeline,
          pipelines, idx, execution, branch, table_data, assembled, stdout,
          calls, fn_input, fn_output>>

\* all([key id, secret, token]): os.getenv gives None for an unset variable,
\* and None and "" are both falsy.
CredentialSet(env, k) == k \in DOMAIN env /\ env[k] # ""

\* Mutant: the session token is not among the values that are tested.
MutCredentialsPresentNoToken(env) ==
    /\ CredentialSet(env, "AWS_ACCESS_KEY_ID")
    /\ CredentialSet(env, "AWS_SECRET_ACCESS_KEY")

CredentialsPresent(env) ==
    /\ CredentialSet(env, "AWS_ACCESS_KEY_ID")
    /\ CredentialSet(env, "AWS_SECRET_ACCESS_KEY")
    /\ CredentialSet(env, "AWS_SESSION_TOKEN")

\* [f.lower() for f in name_filters]
RECURSIVE LowerAll(_)
LowerAll(filters) ==
    IF filters = <<>> THEN <<>>
    ELSE <<Lower(Head(filters))>> \o LowerAll(Tail(filters))

get_latest_execution(call) ==
    IF call.raised THEN None
    ELSE LET executions == Get(call.response, "pipelineExecutionSummaries", <<>>)
         IN  IF Len(executions) > 0 THEN executions[1] ELSE None

\* The value a qualifying artifact revision yields.
RevisionMessage(revision_summary) ==
    IF Contains(revision_summary, "CommitMessage\":\"")
    THEN Slice(Split(revision_summary, "CommitMessage\":")[2], 1, -2)
    ELSE revision_summary

\* The for loop over execution.get("artifactRevisions", []).
RECURSIVE ScanRevisions(_)
ScanRevisions(revisions) ==
    IF revisions = <<>> THEN "Unknown"
    ELSE IF ~Contains(Lower(Get(Head(revisions), "name", "")), "helm")
         THEN RevisionMessage(Get(Head(revisions), "revisionSummary", ""))
         ELSE ScanRevisions(Tail(revisions))

get_commit_message(call) ==
    IF call.raised THEN "Unknown"
    ELSE LET exec == Get(call.response, "pipelineExecution", <<>>)
         IN  IF DOMAIN exec = {} THEN "Unknown"
             ELSE ScanRevisions(Get(exec, "artifactRevisions", <<>>))

\* The inner for loop over stage.get("actions", []).
RECURSIVE ScanActions(_)
ScanActions(actions) ==
    IF actions = <<>> THEN ""
    ELSE LET configuration == Get(Head(actions), "configuration", <<>>)
         IN  IF "BranchName" \in DOMAIN configuration /\ configuration.BranchName # ""
             THEN configuration.BranchName
             ELSE ScanActions(Tail(actions))

\* The outer for loop over pipeline.get("stages", []); "" when no action of
\* a source stage has a branch.
RECURSIVE ScanStages(_)
ScanStages(stages) ==
    IF stages = <<>> THEN ""
    ELSE IF Lower(Get(Head(stages), "name", "")) = "source"
            /\ ScanActions(Get(Head(stages), "actions", <<>>)) # ""
         THEN ScanActions(Get(Head(stages), "actions", <<>>))
         ELSE ScanStages(Tail(stages))

\* Mutant: the except block returns an empty branch instead of "Unknown".
MutGetPipelineBranchEmptyOnError(call) ==
    IF call.raised THEN ""
    ELSE LET pipeline == Get(call.response, "pipeline", <<>>)
             found == ScanStages(Get(pipeline, "stages", <<>>))
         IN  IF found # "" THEN found ELSE "Unknown"

get_pipeline_branch(call) ==
    IF call.raised THEN "Unknown"
    ELSE LET pipeline == Get(call.response, "pipeline", <<>>)
             found == ScanStages(Get(pipeline, "stages", <<>>))
         IN  IF found # "" THEN found ELSE "Unknown"

\* Mutant: the minutes are not reduced modulo the hour.
MutDurationPartsMinutesNotReduced(total_seconds) ==
    [hours |-> total_seconds \div 3600,
     minutes |-> total_seconds \div 60,
     seconds |-> total_seconds % 60]

\* hours, minutes and seconds of a whole number of seconds (// and % floor).
DurationParts(total_seconds) ==
    [hours |-> total_seconds \div 3600,
     minutes |-> (total_seconds % 3600) \div 60,
     seconds |-> total_seconds % 60]

format_duration(start_time, end_time) ==
    LET end == IF end_time = None THEN now ELSE end_time
        total_seconds == IntTotalSeconds(Timedelta(start_time, end))
        p == DurationParts(total_seconds)
    IN  IF p.hours > 0 THEN Str(p.hours) \o "h " \o Str(p.minutes) \o "m"
        ELSE IF p.minutes > 0 THEN Str(p.minutes) \o "m " \o Str(p.seconds) \o "s"
        ELSE Str(p.seconds) \o "s"

\* date.strftime("%d/%m/%Y %H:%M")
format_date(date) ==
    Pad2(date.day) \o "/" \o Pad2(date.month) \o "/" \o Str(date.year)
    \o " " \o Pad2(date.hour) \o ":" \o Pad2(date.minute)

\* Mutant: the pipeline name is not lowercased before the test.
MutMatchesAnyFilterCaseSensitive(pipeline, filters) ==
    \E i \in 1..Len(filters) : Contains(pipeline, filters[i])

\* any(f in pipeline.lower() for f in self.name_filters)
MatchesAnyFilter(pipeline, filters) ==
    \E i \in 1..Len(filters) : Contains(Lower(pipeline), filters[i])

\* Mutant: every listed name is returned, the filters are not applied.
MutListAllPipelinesUnfiltered(call, filters) ==
    IF call.raised THEN <<>>
    ELSE LET listed == Get(call.response, "pipelines", <<>>)
         IN  [i \in 1..Len(listed) |-> listed[i].name]

list_all_pipelines(call, filters) ==
    IF call.raised THEN <<>>
    ELSE LET listed == Get(call.response, "pipelines", <<>>)
         IN  IF \E i \in 1..Len(listed) : "name" \notin DOMAIN listed[i]
             THEN <<>>       \* pipeline["name"] raises KeyError, caught
             ELSE LET all_pipelines == [i \in 1..Len(listed) |-> listed[i].name]
                      Keep(pipeline) == MatchesAnyFilter(pipeline, filters)
                  IN  SelectSeq(all_pipelines, Keep)

---------------------------------------------------------------------------
(* The provider: the account's pipelines and what the read APIs return     *)
(* for each.  The listing order and the calls that fail vary; the data of  *)
(* a pipeline does not.                                                    *)

PipelineNames == {"kulu-api", "Kulu-Web", "other-svc", "KULU-batch"}

Message60 == "Refactor the deployment scripts and update the README file.."
Message50 == "Add retry with backoff to the artifact upload step"

\* list_pipeline_executions(pipelineName=p, maxResults=1)
ProviderExecutions(p) ==
    CASE p = "kulu-api" ->
           [pipelineExecutionSummaries |-> <<
               [pipelineExecutionId |-> "exec-api", status |-> "Succeeded",
                startTime |-> Datetime(2024, 2, 28, 23, 59, 30, 0),
                lastUpdateTime |-> Datetime(2024, 2, 29, 0, 1, 35, 500000)]>>]
      [] p = "Kulu-Web" ->
           [pipelineExecutionSummaries |-> <<
               [pipelineExecutionId |-> "exec-web", status |-> "InProgress",
                startTime |-> Datetime(2023, 12, 31, 23, 0, 0, 250000),
                lastUpdateTime |-> Datetime(2024, 1, 1, 0, 30, 0, 100000)]>>]
      [] p = "other-svc" ->
           [pipelineExecutionSummaries |-> <<
               [pipelineExecutionId |-> "exec-svc", status |-> "Failed",
                startTime |-> Datetime(2024, 3, 1, 9, 5, 0, 0),
                lastUpdateTime |-> Datetime(2024, 3, 1, 9, 5, 45, 0)]>>]
      [] OTHER -> [pipelineExecutionSummaries |-> <<>>]

\* get_pipeline(name=p)
ProviderPipeline(p) ==
    CASE p = "kulu-api" ->
           [pipeline |-> [name |-> p, stages |-> <<
               [name |-> "Source", actions |-> <<
                   [name |-> "Checkout", configuration |-> [BranchName |-> "main"]]>>],
               [name |-> "Deploy", actions |-> <<
                   [name |-> "Apply", configuration |-> [StackName |-> "api"]]>>]>>]]
      [] p = "Kulu-Web" ->
           [pipeline |-> [name |-> p, stages |-> <<
               [name |-> "Build", actions |-> <<
                   [name |-> "Compile", configuration |-> [BranchName |-> "ignored"]]>>],
               [name |-> "SOURCE", actions |-> <<
                   [name |-> "Chart"],
                   [name |-> "App", configuration |-> [BranchName |-> "develop"]]>>]>>]]
      [] p = "other-svc" ->
           [pipeline |-> [name |-> p, stages |-> <<
               [name |-> "source", actions |-> <<
                   [name |-> "Bucket", configuration |-> [BranchName |-> ""]]>>]>>]]
      [] OTHER ->
           [pipeline |-> [name |-> p, stages |-> <<
               [name |-> "Build", actions |-> <<>>]>>]]

\* get_pipeline_execution(pipelineName=p, pipelineExecutionId=...)
ProviderExecutionDetail(p) ==
    CASE p = "kulu-api" ->
           [pipelineExecution |-> [pipelineName |-> p, artifactRevisions |-> <<
               [name |-> "SourceArtifact",
                revisionSummary |->
                    "{\"ProviderType\":\"GitHub\",\"CommitMessage\":\"fix bug\"}"]>>]]
      [] p = "Kulu-Web" ->
           [pipelineExecution |-> [pipelineName |-> p, artifactRevisions |-> <<
               [name |-> "HelmChart", revisionSummary |-> "chart bump"],
               [name |-> "App", revisionSummary |-> Message60]>>]]
      [] p = "other-svc" ->
           [pipelineExecution |-> [pipelineName |-> p, artifactRevisions |-> <<
               [revisionSummary |-> Message50]>>]]
      [] OTHER -> [pipelineExecution |-> [pipelineName |-> p]]

\* The text of the exception a failing call raises.
ErrorText == "AccessDeniedException"

---------------------------------------------------------------------------
(* monitor_pipelines.                                                      *)

Text(s) == [text |-> s]

Headers == <<"Pipeline", "Branch", "Status", "Last Run", "Duration", "Commit Message">>

\* tabulate(table_data, headers=headers, tablefmt="grid"), by its arguments.
Table(rows) == [headers |-> Headers, rows |-> rows]

\* Mutant: a message of exactly 50 characters is truncated too.
MutTruncateFromFifty(commit_message) ==
    IF Len(commit_message) >= 50
    THEN Slice(commit_message, 0, 50) \o "..."
    ELSE commit_message

\* if len(commit_message) > 50: commit_message = commit_message[:50] + "..."
Truncate(commit_message) ==
    IF Len(commit_message) > 50
    THEN Slice(commit_message, 0, 50) \o "..."
    ELSE commit_message

\* The row appended for a pipeline that has an execution.
Row(pipeline, exec, br, commit_message) ==
    LET status == Get(exec, "status", "UNKNOWN")
        start_time == Get(exec, "startTime", now)
        last_update_time == Get(exec, "lastUpdateTime", now)
        last_run == format_date(start_time)
        duration == IF IsDatetime(start_time) /\ IsDatetime(last_update_time)
                    THEN format_duration(start_time, last_update_time)
                    ELSE "Unknown"
    IN  <<pipeline, br, status, last_run, duration, Truncate(commit_message)>>

\* The position the j-th row takes in a stable ascending sort by the key
\* x[0]: after the rows with a smaller key and the earlier rows with an
\* equal key.
SortedPosition(rows, j) ==
    1 + Cardinality({k \in 1..Len(rows) :
            \/ StrLess(rows[k][1], rows[j][1])
            \/ (rows[k][1] = rows[j][1] /\ k < j)})

\* Mutant: the rows are left in the order they were appended.
MutSortRowsUnsorted(rows) == rows

\* list.sort(key=lambda x: x[0]): stable, ascending by the key.
SortRows(rows) ==
    [i \in 1..Len(rows) |->
        rows[CHOOSE j \in 1..Len(rows) : SortedPosition(rows, j) = i]]

\* Mutant: the early return is never taken.
MutNoPipelinesNever(ps) == FALSE

\* if not pipelines
NoPipelines(ps) == Len(ps) = 0

\* Mutant: the loop never skips a pipeline.
MutSkipPipelineNever(exec) == FALSE

\* if not execution: continue
SkipPipeline(exec) == ~TruthyDict(exec)

\* The lines a method prints when its API call raised.
ErrorLines(call, prefix) ==
    IF call.raised THEN <<Text(prefix \o ": " \o call.error)>> ELSE <<>>

Init ==
    /\ environ \in UNION {[ks -> {"", "ASIAEXAMPLE"}] :
            ks \in SUBSET {"AWS_ACCESS_KEY_ID", "AWS_SECRET_ACCESS_KEY", "AWS_SESSION_TOKEN"}}
    /\ argv_filters \in {<<"kulu">>, <<"API", "web">>, <<"Svc", "BATCH">>,
                         <<"zzz">>, <<"">>}
    /\ now = Datetime(2024, 3, 1, 12, 0, 0, 0)
    /\ provider \in UNION {{q \in [1..n -> PipelineNames] :
                               \A i, j \in 1..n : i # j => q[i] # q[j]} :
                           n \in 0..MaxPipelines}
    /\ pc = "main"
    /\ name_filters = <<>>
    /\ codepipeline = FALSE
    /\ pipelines = <<>>
    /\ idx = 0
    /\ execution = None
    /\ branch = ""
    /\ table_data = <<>>
    /\ assembled = <<>>
    /\ stdout = <<>>
    /\ calls = <<>>
    /\ fn_input = None
    /\ fn_output = None

\* __main__: PipelineMonitor(name_filters=args.filters), and the except
\* block when the constructor raises.
Construct ==
    /\ pc = "main"
    /\ name_filters' = LowerAll(argv_filters)
    /\ IF CredentialsPresent(environ)
       THEN /\ codepipeline' = TRUE
            /\ pc' = "monitor"
            /\ UNCHANGED stdout
       ELSE /\ codepipeline' = FALSE
            /\ pc' = "failed"
            /\ stdout' = stdout \o
                 <<Text("Error: AWS credentials not found in environment variables"),
                   Text("\nPlease ensure you have set the following environment variables:"),
                   Text("AWS_ACCESS_KEY_ID"),
                   Text("AWS_SECRET_ACCESS_KEY"),
                   Text("AWS_SESSION_TOKEN")>>
    /\ UNCHANGED <<environ, argv_filters, now, provider, pipelines, idx, execution,
                   branch, table_data, assembled, calls, fn_input, fn_output>>

\* The end of the for loop's body for pipelines[idx], given the rows so far:
\* the next pipeline, or the sort and the print after the last one.
EndOfIteration(rows, printed) ==
    IF idx < Len(pipelines)
    THEN /\ idx' = idx + 1
         /\ pc' = "latest"
         /\ table_data' = rows
         /\ stdout' = stdout \o printed
    ELSE \E sorted \in {SortRows(rows)} :
         /\ idx' = idx
         /\ pc' = "done"
         /\ table_data' = sorted
         /\ stdout' = stdout \o printed \o <<Table(sorted), Text("")>>

\* monitor_pipelines up to the for loop: the banner, list_all_pipelines and
\* the early return.
ListPipelines ==
    /\ pc = "monitor"
    /\ \E call \in {Raised(ErrorText),
                    Returned([pipelines |->
                                [i \in 1..Len(provider) |-> [name |-> provider[i]]]])} :
         LET found == list_all_pipelines(call, name_filters)
             banner == <<Text("\n=== AWS CodePipeline Deployment Monitor ==="),
                         Text("Last updated: " \o format_date(now)),
                         Text("Filtering pipelines containing: "
                              \o Join(name_filters) \o "\n")>>
         IN  /\ calls' = Append(calls, [op |-> "list_pipelines", raised |-> call.raised])
             /\ pipelines' = found
             /\ IF NoPipelines(found)
                THEN /\ stdout' = stdout \o banner
                          \o ErrorLines(call, "Error listing pipelines")
                          \o <<Text("No pipelines found containing any of: "
                                    \o Join(name_filters))>>
                     /\ pc' = "done"
                     /\ idx' = idx
                ELSE /\ stdout' = stdout \o banner
                          \o ErrorLines(call, "Error listing pipelines")
                     /\ pc' = "latest"
                     /\ idx' = 1
    /\ UNCHANGED <<environ, argv_filters, now, provider, name_filters, codepipeline,
                   execution, branch, table_data, assembled, fn_input, fn_output>>

\* execution = self.get_latest_execution(pipeline), and the continue.
LatestExecution ==
    /\ pc = "latest"
    /\ LET pipeline == pipelines[idx]
       IN  \E call \in {Raised(ErrorText), Returned(ProviderExecutions(pipeline))} :
             LET exec == get_latest_execution(call)
                 printed == ErrorLines(call,
                     "Error getting latest execution for pipeline " \o pipeline)
             IN  /\ calls' = Append(calls, [op |-> "list_pipeline_executions",
                                            pipelineName |-> pipeline,
                                            raised |-> call.raised])
                 /\ execution' = exec
                 /\ IF SkipPipeline(exec)
                    THEN EndOfIteration(table_data, printed)
                    ELSE /\ pc' = "branch"
                         /\ stdout' = stdout \o printed
                         /\ UNCHANGED <<idx, table_data>>
    /\ UNCHANGED <<environ, argv_filters, now, provider, name_filters, codepipeline,
                   pipelines, branch, assembled, fn_input, fn_output>>

\* branch = self.get_pipeline_branch(pipeline)
PipelineBranch ==
    /\ pc = "branch"
    /\ LET pipeline == pipelines[idx]
       IN  \E call \in {Raised(ErrorText), Returned(ProviderPipeline(pipeline))} :
             /\ calls' = Append(calls, [op |-> "get_pipeline", name |-> pipeline,
                                        raised |-> call.raised])
             /\ branch' = get_pipeline_branch(call)
             /\ stdout' = stdout \o ErrorLines(call,
                     "Error getting branch for pipeline " \o pipeline)
    /\ pc' = "commit"
    /\ UNCHANGED <<environ, argv_filters, now, provider, name_filters, codepipeline,
                   pipelines, idx, execution, table_data, assembled, fn_input,
                   fn_output>>

\* commit_message = self.get_commit_message(pipeline, execution_id), the
\* truncation and table_data.append.
CommitMessage ==
    /\ pc = "commit"
    /\ LET pipeline == pipelines[idx]
           execution_id == Get(execution, "pipelineExecutionId", "")
       IN  \E call \in {Raised(ErrorText), Returned(ProviderExecutionDetail(pipeline))} :
             \E commit_message \in {get_commit_message(call)} :
             \E row \in {Row(pipeline, execution, branch, commit_message)} :
                 /\ calls' = Append(calls, [op |-> "get_pipeline_execution",
                                            pipelineName |-> pipeline,
                                            pipelineExecutionId |-> execution_id,
                                            raised |-> call.raised])
                 /\ assembled' = Append(assembled, row)
                 /\ EndOfIteration(Append(table_data, row),
                        ErrorLines(call,
                            "Error getting commit message for pipeline " \o pipeline))
    /\ UNCHANGED <<environ, argv_filters, now, provider, name_filters, codepipeline,
                   pipelines, execution, branch, fn_input, fn_output>>

Next == Construct \/ ListPipelines \/ LatestExecution \/ PipelineBranch \/ CommitMessage

Spec == Init /\ [][Next]_vars

---------------------------------------------------------------------------
(* format_duration on its own: one call, on timestamps around midnight of  *)
(* 28 February 2024.                                                       *)

DurationStart == Datetime(2024, 2, 28, 23, 30, 0, 250000)

DurationEnds ==
    {Datetime(2024, 2, d, h, mi, s, us) :
        d \in {28, 29}, h \in {23} \cup (0..MaxEndHour),
        mi \in 0..59, s \in 0..59, us \in {0, 250000}}

InitDuration ==
    /\ environ = <<>>
    /\ argv_filters = <<>>
    /\ now = Datetime(2024, 2, 29, 0, 15, 20, 0)
    /\ provider = <<>>
    /\ pc = "call"
    /\ name_filters = <<>>
    /\ codepipeline = TRUE
    /\ pipelines = <<>>
    /\ idx = 0
    /\ execution = None
    /\ branch = ""
    /\ table_data = <<>>
    /\ assembled = <<>>
    /\ stdout = <<>>
    /\ calls = <<>>
    /\ fn_input \in {[start_time |-> DurationStart, end_time |-> e] :
                        e \in DurationEnds \cup {None}}
    /\ fn_output = None

FormatDuration ==
    /\ pc = "call"
    /\ fn_output' = [value |-> format_duration(fn_input.start_time, fn_input.end_time)]
    /\ pc' = "returned"
    /\ UNCHANGED <<environ, argv_filters, now, provider, name_filters, codepipeline,
                   pipelines, idx, execution, branch, table_data, assembled, stdout,
                   calls, fn_input>>

NextDuration == FormatDuration

SpecDuration == InitDuration /\ [][NextDuration]_vars

---------------------------------------------------------------------------
(* get_commit_message on its own: one call, over the outcomes of           *)
(* get_pipeline_execution.                                                 *)

RevisionNames == {"SourceArtifact", "HelmChart", "my-helm-values"}

RevisionSummaries ==
    {"{\"CommitMessage\":\"fix bug\"}",
     "{\"ProviderType\":\"GitHub\",\"CommitMessage\":\"fix bug\"}",
     "{\"CommitMessage\":\"fix bug\",\"ProviderType\":\"GitHub\"}",
     "Merge branch main",
     ""}

\* An artifact revision: name and revisionSummary are each present or not.
Revisions ==
    {[name |-> n, revisionSummary |-> r] : n \in RevisionNames, r \in RevisionSummaries}
    \cup {[revisionSummary |-> r] : r \in RevisionSummaries}
    \cup {[name |-> n] : n \in RevisionNames}

RevisionLists == UNION {[1..n -> Revisions] : n \in 0..MaxRevisions}

ExecutionOutcomes ==
    {Raised(ErrorText), Returned(<<>>), Returned([pipelineExecution |-> <<>>]),
     Returned([pipelineExecution |-> [pipelineName |-> "kulu-api"]])}
    \cup {Returned([pipelineExecution |->
                       [pipelineName |-> "kulu-api", artifactRevisions |-> revs]]) :
             revs \in RevisionLists}

InitCommit ==
    /\ environ = <<>>
    /\ argv_filters = <<>>
    /\ now = Datetime(2024, 3, 1, 12, 0, 0, 0)
    /\ provider = <<>>
    /\ pc = "call"
    /\ name_filters = <<>>
    /\ codepipeline = TRUE
    /\ pipelines = <<>>
    /\ idx = 0
    /\ execution = None
    /\ branch = ""
    /\ table_data = <<>>
    /\ assembled = <<>>
    /\ stdout = <<>>
    /\ calls = <<>>
    /\ fn_input \in ExecutionOutcomes
    /\ fn_output = None

GetCommitMessage ==
    /\ pc = "call"
    /\ fn_output' = [value |-> get_commit_message(fn_input)]
    /\ stdout' = stdout \o ErrorLines(fn_input,
                     "Error getting commit message for pipeline kulu-api")
    /\ pc' = "returned"
    /\ UNCHANGED <<environ, argv_filters, now, provider, name_filters, codepipeline,
                   pipelines, idx, execution, branch, table_data, assembled, calls,
                   fn_input>>

NextCommit == GetCommitMessage

SpecCommit == InitCommit /\ [][NextCommit]_vars

---------------------------------------------------------------------------
(* What the claims are stated with.                                        *)

CredentialKeys == {"AWS_ACCESS_KEY_ID", "AWS_SECRET_ACCESS_KEY", "AWS_SESSION_TOKEN"}

\* lower(P) contains lower(f) for at least one f of F.
ClaimedMatch(P, F) ==
    \E k \in 1..Len(F) :
        \E i \in 0..(Len(P) - Len(F[k])) :
            Lower(SubSeq(P, i + 1, i + Len(F[k]))) = Lower(F[k])

\* The 1-based position of a name in the provider's listing (0: not listed).
ListingPosition(p) ==
    IF \E i \in 1..Len(provider) : provider[i] = p
    THEN CHOOSE i \in 1..Len(provider) : provider[i] = p
    ELSE 0

ListCallMade == Len(calls) >= 1
ListCallFailed == ListCallMade /\ calls[1].raised

\* The detail calls: everything after the list-pipelines call.
DetailCalls == SubSeq(calls, 2, Len(calls))
CallPipeline(c) == IF c.op = "get_pipeline" THEN c.name ELSE c.pipelineName
CallStep(c) ==
    CASE c.op = "list_pipeline_executions" -> 1
      [] c.op = "get_pipeline" -> 2
      [] c.op = "get_pipeline_execution" -> 3
      [] OTHER -> 0

CallFailed(op, p) ==
    \E i \in 1..Len(DetailCalls) :
        /\ DetailCalls[i].op = op
        /\ CallPipeline(DetailCalls[i]) = p
        /\ DetailCalls[i].raised

TablesPrinted == {i \in 1..Len(stdout) : "rows" \in DOMAIN stdout[i]}
TablePrinted == TablesPrinted # {}
RenderedRows == stdout[CHOOSE i \in TablesPrinted : TRUE].rows

RowsNamed(rows, p) == {i \in 1..Len(rows) : rows[i][1] = p}

\* The provider has an execution of p.
HasExecution(p) == Len(ProviderExecutions(p).pipelineExecutionSummaries) > 0

\* The row of p in the run in which no call fails.
UnfailedRow(p) ==
    Row(p, get_latest_execution(Returned(ProviderExecutions(p))),
        get_pipeline_branch(Returned(ProviderPipeline(p))),
        get_commit_message(Returned(ProviderExecutionDetail(p))))

\* a <= b in lexicographic code point order, stated without recursion: a is
\* a prefix of b, or the first character that differs is smaller in a.
LexLeq(a, b) ==
    \/ (Len(a) <= Len(b) /\ SubSeq(b, 1, Len(a)) = a)
    \/ \E k \in 1..Len(a) :
          /\ k <= Len(b)
          /\ SubSeq(a, 1, k - 1) = SubSeq(b, 1, k - 1)
          /\ Ord(SubSeq(a, k, k)) < Ord(SubSeq(b, k, k))

Count(seq, v) == Cardinality({i \in 1..Len(seq) : seq[i] = v})

SameMultiset(a, b) ==
    /\ Len(a) = Len(b)
    /\ \A i \in 1..Len(a) : Count(a, a[i]) = Count(b, a[i])

---------------------------------------------------------------------------
(* The claims.                                                             *)

\* C1: when the list-pipelines call returns, list_all_pipelines returns a
\* listed name P iff lower(P) contains lower(f) for some f of the filter
\* list given to the monitor, and the returned names keep the listing order.
C1_FilterIsCaseInsensitiveOr ==
    (ListCallMade /\ ~ListCallFailed) =>
        /\ \A i \in 1..Len(provider) :
              (\E j \in 1..Len(pipelines) : pipelines[j] = provider[i])
                  <=> ClaimedMatch(provider[i], argv_filters)
        /\ \A j \in 1..Len(pipelines) : ListingPosition(pipelines[j]) # 0
        /\ \A j, k \in 1..Len(pipelines) :
              j < k => ListingPosition(pipelines[j]) < ListingPosition(pipelines[k])

\* C1 witness: upper-case filters kept two of three listed names, in order.
C1_Witness ==
    /\ ListCallMade /\ ~ListCallFailed
    /\ argv_filters = <<"API", "web">>
    /\ provider = <<"Kulu-Web", "other-svc", "kulu-api">>
    /\ pipelines = <<"Kulu-Web", "kulu-api">>

\* C2: if any of the three credentials is unset or empty, the constructor
\* fails (the configuration error is reported) before the client is created
\* and before any API call; so whenever the client exists or an API call has
\* been made, all three credentials are non-empty.
C2_CredentialsCheckedFirst ==
    /\ (\E k \in CredentialKeys : k \notin DOMAIN environ \/ environ[k] = "") =>
          /\ codepipeline = FALSE
          /\ calls = <<>>
          /\ pc \in {"main", "failed"}
          /\ pc = "failed" =>
                stdout[1] = Text("Error: AWS credentials not found in environment variables")
    /\ (codepipeline \/ calls # <<>>) =>
          \A k \in CredentialKeys : k \in DOMAIN environ /\ environ[k] # ""

\* C2 witness: the constructor has failed on an empty session token.
C2_Witness ==
    /\ pc = "failed"
    /\ "AWS_SESSION_TOKEN" \in DOMAIN environ /\ environ["AWS_SESSION_TOKEN"] = ""
    /\ \A k \in CredentialKeys \ {"AWS_SESSION_TOKEN"} :
          k \in DOMAIN environ /\ environ[k] # ""
    /\ calls = <<>>

\* C3: whatever per-pipeline calls fail, monitor_pipelines can always take
\* its next step until it is done, and once done over a non-empty filtered
\* set it has printed the table, in which: a pipeline whose list-executions
\* call failed has no row; every other pipeline that has an execution has
\* the row of the run without failures, except that the branch is "Unknown"
\* if its get-pipeline call failed and the commit message is "Unknown" if
\* its get-pipeline-execution call failed.
C3_FailuresAreContained ==
    /\ pc \in {"monitor", "latest", "branch", "commit"} => ENABLED Next
    /\ (pc = "done" /\ Len(pipelines) > 0) =>
          /\ TablePrinted
          /\ \A j \in 1..Len(pipelines) :
                LET p == pipelines[j]
                    at == RowsNamed(RenderedRows, p)
                IN  IF CallFailed("list_pipeline_executions", p) \/ ~HasExecution(p)
                    THEN at = {}
                    ELSE \E i \in at :
                           /\ at = {i}
                           /\ RenderedRows[i] =
                                [UnfailedRow(p) EXCEPT
                                   ![2] = IF CallFailed("get_pipeline", p)
                                          THEN "Unknown" ELSE @,
                                   ![6] = IF CallFailed("get_pipeline_execution", p)
                                          THEN "Unknown" ELSE @]

\* C3 witness: a finished run over three pipelines in which one call of each
\* kind failed, each for a different pipeline, and two rows were printed.
C3_Witness ==
    /\ pc = "done" /\ TablePrinted
    /\ pipelines = <<"kulu-api", "Kulu-Web", "other-svc">>
    /\ CallFailed("list_pipeline_executions", "kulu-api")
    /\ CallFailed("get_pipeline", "Kulu-Web")
    /\ CallFailed("get_pipeline_execution", "other-svc")
    /\ Len(RenderedRows) = 2

\* C4: the rendered table has exactly one row for each matched pipeline
\* whose latest-execution lookup gave an execution, no row for a matched
\* pipeline whose lookup gave none (no execution, or the call failed), and
\* no other row.
C4_OneRowPerExecution ==
    TablePrinted =>
        /\ \A j \in 1..Len(pipelines) :
              Cardinality(RowsNamed(RenderedRows, pipelines[j])) =
                  IF HasExecution(pipelines[j])
                     /\ ~CallFailed("list_pipeline_executions", pipelines[j])
                  THEN 1 ELSE 0
        /\ \A i \in 1..Len(RenderedRows) :
              \E j \in 1..Len(pipelines) : pipelines[j] = RenderedRows[i][1]

\* C4 witness: a table was printed with a row for one pipeline and none for
\* a pipeline without executions and for one whose lookup failed.
C4_Witness ==
    /\ TablePrinted
    /\ pipelines = <<"KULU-batch", "kulu-api", "Kulu-Web">>
    /\ CallFailed("list_pipeline_executions", "kulu-api")
    /\ Len(RenderedRows) = 1
    /\ RenderedRows[1][1] = "Kulu-Web"

\* C5: the rows given to the table renderer are in ascending lexicographic
\* order of the pipeline name, and they are the rows assembled by the fetch
\* loop, as a multiset.
C5_RowsSortedByName ==
    TablePrinted =>
        /\ \A i, j \in 1..Len(RenderedRows) :
              i < j => LexLeq(RenderedRows[i][1], RenderedRows[j][1])
        /\ SameMultiset(RenderedRows, assembled)

\* C5 witness: three rows were assembled in descending order of the name
\* and printed in another order.
C5_Witness ==
    /\ TablePrinted
    /\ Len(assembled) = 3
    /\ assembled[1][1] = "other-svc"
    /\ assembled[2][1] = "kulu-api"
    /\ assembled[3][1] = "Kulu-Web"
    /\ RenderedRows # assembled

\* C6: every detail call is for a pipeline that is listed and matches a
\* filter; the first detail call is a latest-execution lookup; each next
\* call is either the next step (latest execution, pipeline definition,
\* execution detail) for the same pipeline, or the latest-execution lookup
\* of a pipeline later in the listing; no pipeline gets more than three.
C6_DetailCallsSequential ==
    /\ \A i \in 1..Len(DetailCalls) :
          /\ CallStep(DetailCalls[i]) \in 1..3
          /\ ListingPosition(CallPipeline(DetailCalls[i])) # 0
          /\ ClaimedMatch(CallPipeline(DetailCalls[i]), argv_filters)
          /\ Cardinality({k \in 1..Len(DetailCalls) :
                CallPipeline(DetailCalls[k]) = CallPipeline(DetailCalls[i])}) <= 3
    /\ Len(DetailCalls) > 0 => CallStep(DetailCalls[1]) = 1
    /\ \A i \in 1..(Len(DetailCalls) - 1) :
          LET c == DetailCalls[i]
              d == DetailCalls[i + 1]
          IN  \/ /\ CallPipeline(d) = CallPipeline(c)
                 /\ CallStep(d) = CallStep(c) + 1
              \/ /\ ListingPosition(CallPipeline(d)) > ListingPosition(CallPipeline(c))
                 /\ CallStep(d) = 1

\* C6 witness: a finished run in which the listing held a pipeline that
\* matches no filter between two that match, each of which got three calls.
C6_Witness ==
    /\ pc = "done"
    /\ provider = <<"Kulu-Web", "other-svc", "kulu-api">>
    /\ argv_filters = <<"kulu">>
    /\ Len(DetailCalls) = 6

\* C7: if the filtered set is empty, because the list-pipelines call failed
\* or because no listed name matches a filter, monitor_pipelines prints the
\* "No pipelines found containing any of: ..." message and returns: no
\* detail call is made and no table is printed.
C7_EmptySetReturnsEarly ==
    (ListCallMade /\ (ListCallFailed
                        \/ \A i \in 1..Len(provider) :
                              ~ClaimedMatch(provider[i], argv_filters))) =>
        /\ pc = "done"
        /\ stdout[Len(stdout)] =
              Text("No pipelines found containing any of: " \o Join(LowerAll(argv_filters)))
        /\ DetailCalls = <<>>
        /\ ~TablePrinted

\* C7 witness: the list-pipelines call failed although matching pipelines
\* exist.
C7_Witness ==
    /\ ListCallFailed
    /\ pc = "done"
    /\ \E i \in 1..Len(provider) : ClaimedMatch(provider[i], argv_filters)

\* C8: for a whole-second elapsed time e >= 0 between start and end,
\* format_duration returns "{e}s" when e <= 59, "{e div 60}m {e mod 60}s"
\* when 60 <= e <= 3599 and "{e div 3600}h {(e mod 3600) div 60}m" when
\* e >= 3600; 45 gives "45s", 125 gives "2m 5s" and 5400 gives "1h 30m".
C8_FormatDuration ==
    (pc = "returned" /\ fn_input.end_time # None) =>
        LET e == IntTotalSeconds(Timedelta(fn_input.start_time, fn_input.end_time))
        IN  /\ (0 <= e /\ e <= 59) => fn_output.value = Str(e) \o "s"
            /\ (60 <= e /\ e <= 3599) =>
                  fn_output.value = Str(e \div 60) \o "m " \o Str(e % 60) \o "s"
            /\ e >= 3600 =>
                  fn_output.value =
                      Str(e \div 3600) \o "h " \o Str((e % 3600) \div 60) \o "m"
            /\ e = 45 => fn_output.value = "45s"
            /\ e = 125 => fn_output.value = "2m 5s"
            /\ e = 5400 => fn_output.value = "1h 30m"

\* C8 witness: an elapsed time of 5400 seconds was formatted.
C8_Witness ==
    /\ pc = "returned"
    /\ fn_input.end_time = Datetime(2024, 2, 29, 1, 0, 0, 250000)
    /\ fn_output.value = "1h 30m"

\* The text embedded after the CommitMessage marker of a revision summary:
\* what follows the marker, up to the quote that closes it.
EmbeddedMessage(summary) ==
    LET marker == "CommitMessage\":\""
        rest == SubSeq(summary, Find(summary, marker) + Len(marker), Len(summary))
        close == Find(rest, "\"")
    IN  IF close = 0 THEN rest ELSE SubSeq(rest, 1, close - 1)

\* What the claim says get_commit_message returns for an outcome of the call.
ClaimedCommitMessage(outcome) ==
    IF outcome.raised THEN "Unknown"
    ELSE IF "pipelineExecution" \notin DOMAIN outcome.response THEN "Unknown"
    ELSE IF DOMAIN outcome.response.pipelineExecution = {} THEN "Unknown"
    ELSE LET revs == Get(outcome.response.pipelineExecution, "artifactRevisions", <<>>)
             ok == {i \in 1..Len(revs) :
                       ~ClaimedMatch(Get(revs[i], "name", ""), <<"helm">>)}
         IN  IF ok = {} THEN "Unknown"
             ELSE LET first == CHOOSE i \in ok : \A j \in ok : i <= j
                      summary == Get(revs[first], "revisionSummary", "")
                  IN  IF Contains(summary, "CommitMessage\":\"")
                      THEN EmbeddedMessage(summary)
                      ELSE summary

\* C9: get_commit_message returns the value of the first artifact revision
\* whose name does not contain "helm" (case-insensitive): the text embedded
\* after the CommitMessage marker when the summary contains it, otherwise
\* the raw summary; and "Unknown" when the execution is absent, when no
\* revision qualifies, or when the call fails.
C9_CommitMessageIsEmbeddedText ==
    pc = "returned" => fn_output.value = ClaimedCommitMessage(fn_input)

\* The rest of C9, which the code satisfies: whenever nothing but the
\* closing quote and brace follows the embedded message of the revision that
\* is chosen, get_commit_message returns what the claim says.
C9_HoldsWhenMessageEndsSummary ==
    (pc = "returned" /\ fn_output.value # ClaimedCommitMessage(fn_input)) =>
        fn_output.value = "fix bug\",\"ProviderType\":\"GitHub"

\* C10: in every row, a commit message longer than 50 characters is shown as
\* its first 50 characters followed by "..." (53 characters), a commit
\* message of 50 characters or fewer is shown unchanged, and so no displayed
\* commit message is longer than 53 characters.
C10_CommitMessageTruncated ==
    \A i \in 1..Len(table_data) :
        LET p == table_data[i][1]
            message == IF CallFailed("get_pipeline_execution", p) THEN "Unknown"
                       ELSE get_commit_message(Returned(ProviderExecutionDetail(p)))
            shown == table_data[i][6]
        IN  /\ Len(message) > 50 =>
                  shown = SubSeq(message, 1, 50) \o "..." /\ Len(shown) = 53
            /\ Len(message) <= 50 => shown = message
            /\ Len(shown) <= 53

\* C10 witness: a printed table shows a 60-character message cut to 53
\* characters beside a 50-character message shown whole.
C10_Witness ==
    /\ TablePrinted
    /\ \E i \in 1..Len(RenderedRows) :
          /\ RenderedRows[i][1] = "Kulu-Web"
          /\ RenderedRows[i][6] = SubSeq(Message60, 1, 50) \o "..."
    /\ \E i \in 1..Len(RenderedRows) :
          /\ RenderedRows[i][1] = "other-svc"
          /\ RenderedRows[i][6] = Message50

=============================================================================
